---- MODULE Spec2Model ----
(***************************************************************************)
(* Model of src/opt_gen.py: the one-time pad generator                     *)
(* (generate_one_time_pad) and the two Tkinter handlers of                 *)
(* OTPGeneratorApp that call it and persist its output (on_generate,       *)
(* on_save).                                                               *)
(*                                                                         *)
(* Text is modelled as a sequence of one-character strings, so that        *)
(* slicing, joining, stripping and parsing are computed character by       *)
(* character as the Python code computes them.  An optional value (a       *)
(* Python None, "no dialog", "no file") is the empty sequence <<>>, a      *)
(* present value x is the one-element sequence <<x>>.                      *)
(*                                                                         *)
(* Two specifications:                                                     *)
(*   SpecPad  generate_one_time_pad called directly with bounded valid     *)
(*            arguments; the pad is drawn one symbol per step.             *)
(*   Spec     the GUI: the user fills in the three entry fields and        *)
(*            presses Generate, and presses Save, in any order.  Only      *)
(*            on_generate reads the entry fields, so typing into them is   *)
(*            part of the Generate step.  The user typing into the         *)
(*            output text box itself is not modelled: the buffer changes   *)
(*            only through the two handlers.                               *)
(***************************************************************************)
EXTENDS Integers, Sequences, FiniteSets

VARIABLES
    length_var,       \* Entry text of "Length"      (tk.StringVar, line 83)
    group_size_var,   \* Entry text of "Group Size"  (tk.StringVar, line 88)
    line_length_var,  \* Entry text of "Line Length" (tk.StringVar, line 93)
    output_text,      \* content of the ScrolledText buffer (line 104)
    handler,          \* the handler that ran most recently, or "none"
    messagebox,       \* dialog shown by the most recent handler, or <<>>
    filename,         \* <<name>> the file chooser returned to the most
                      \* recent handler ("" on cancel), <<>> if not opened
    raised,           \* <<exception>> raised inside the try block of the
                      \* most recent handler (lines 165-168), or <<>>
    file,             \* <<content>> of the file the most recent handler
                      \* created or wrote, or <<>> if it touched no file
    pad_text,         \* pad_text of the most recent on_save (line 152)
    call,             \* <<arguments>> of the most recent call of
                      \* generate_one_time_pad, or <<>>
    all_chars,        \* the pad drawn by that call (line 49)
    pad_lines,        \* the lines it returned (line 63)
    pc                \* "idle" in the GUI; "draw"/"done" inside a direct call

vars == <<length_var, group_size_var, line_length_var, output_text, handler,
          messagebox, filename, raised, file, pad_text, call, all_chars,
          pad_lines, pc>>

gui_vars == <<length_var, group_size_var, line_length_var, output_text,
              handler, messagebox, filename, raised, file, pad_text>>

(***************************************************************************)
(* Bounds                                                                  *)
(***************************************************************************)
\* SpecPad: largest length, group_size and line_length of a direct call
MaxLength == 6
MaxGroup == 3
MaxLine == 4
\* number of letters of the alphabet the random source is let to produce
MaxSymbols == 2
\* Spec: largest digit the user types into an entry field, and so the
\* longest pad generated through the GUI
MaxTyped == 2

(***************************************************************************)
(* Python and Tk primitives                                                *)
(***************************************************************************)
Min(a, b) == IF a < b THEN a ELSE b

\* string.ascii_uppercase
ascii_uppercase ==
    <<"A", "B", "C", "D", "E", "F", "G", "H", "I", "J", "K", "L", "M",
      "N", "O", "P", "Q", "R", "S", "T", "U", "V", "W", "X", "Y", "Z">>

\* secrets.choice(seq): the set of values one draw can return
choice(seq) == {seq[n] : n \in 1..Min(Len(seq), MaxSymbols)}

\* a range that drops a final partial stride
Range_floor(start, stop, step) ==
    LET ks == {k \in 0..(stop - start - 1) : start + (k + 1) * step <= stop}
    IN  [k \in 1..Cardinality(ks) |-> start + (k - 1) * step]

\* range(start, stop, step) for step > 0, as the sequence of its values:
\* start, start + step, ... for as long as the value is below stop
Range(start, stop, step) ==
    LET ks == {k \in 0..(stop - start - 1) : start + k * step < stop}
    IN  [k \in 1..Cardinality(ks) |-> start + (k - 1) * step]

\* a slice that stops one element early
Slice_short(s, i, j) == SubSeq(s, i + 1, Min(j, Len(s)) - 1)

\* s[i:j] for 0 <= i <= j (0-based, end exclusive, clamped to len(s))
Slice(s, i, j) == SubSeq(s, i + 1, Min(j, Len(s)))

\* a join that puts the separator after every part, the last included
RECURSIVE Join_trailing(_, _)
Join_trailing(sep, parts) ==
    IF parts = <<>> THEN <<>>
    ELSE parts[1] \o sep \o Join_trailing(sep, Tail(parts))

\* sep.join(parts)
RECURSIVE Join(_, _)
Join(sep, parts) ==
    IF parts = <<>> THEN <<>>
    ELSE IF Len(parts) = 1 THEN parts[1]
    ELSE parts[1] \o sep \o Join(sep, Tail(parts))

Whitespace == {" ", "\n", "\t", "\r"}

\* str.lstrip() and str.rstrip()
RECURSIVE lstrip(_)
lstrip(text) ==
    IF text # <<>> /\ text[1] \in Whitespace THEN lstrip(Tail(text)) ELSE text

RECURSIVE rstrip(_)
rstrip(text) ==
    IF text # <<>> /\ text[Len(text)] \in Whitespace
    THEN rstrip(SubSeq(text, 1, Len(text) - 1))
    ELSE text

\* a strip that keeps the trailing whitespace
strip_leading_only(text) == lstrip(text)

\* a strip that does nothing
strip_nothing(text) == text

\* str.strip(): drop leading and trailing whitespace
strip(text) == rstrip(lstrip(text))

Digit == <<"0", "1", "2", "3", "4", "5", "6", "7", "8", "9">>
DigitChars == {Digit[n] : n \in 1..Len(Digit)}
DigitValue(c) == CHOOSE d \in 0..9 : Digit[d + 1] = c

RECURSIVE Decimal(_)
Decimal(digits) ==
    IF digits = <<>> THEN 0
    ELSE 10 * Decimal(SubSeq(digits, 1, Len(digits) - 1))
         + DigitValue(digits[Len(digits)])

IsDigitChar(c) == c \in DigitChars

\* int(text) for a str: <<value>>, or <<>> where Python raises ValueError.
\* Surrounding whitespace is ignored, one sign is allowed, and the rest is
\* decimal digits, optionally separated by single underscores.
int(text) ==
    LET s == strip(text)
        signed == s # <<>> /\ s[1] \in {"+", "-"}
        body == IF signed THEN Tail(s) ELSE s
        ok == /\ body # <<>>
              /\ \A n \in 1..Len(body) : body[n] \in DigitChars \cup {"_"}
              /\ body[1] # "_"
              /\ body[Len(body)] # "_"
              /\ \A n \in 1..(Len(body) - 1) :
                    ~(body[n] = "_" /\ body[n + 1] = "_")
        value == Decimal(SelectSeq(body, IsDigitChar))
    IN  IF ~ok THEN <<>>
        ELSE IF signed /\ s[1] = "-" THEN <<0 - value>>
        ELSE <<value>>

(***************************************************************************)
(* generate_one_time_pad (lines 36-63)                                     *)
(***************************************************************************)
\* grouping that also emits the group starting at len(line_segment)
grouped_line_extra(line_segment, group_size) ==
    LET starts == Range(0, Len(line_segment) + 1, group_size)
    IN  Join(<<" ">>,
             [k \in 1..Len(starts) |->
                 Slice(line_segment, starts[k], starts[k] + group_size)])

\* lines 57-60: ' '.join(line_segment[j : j + group_size] for j in range(...))
grouped_line(line_segment, group_size) ==
    LET starts == Range(0, Len(line_segment), group_size)
    IN  Join(<<" ">>,
             [k \in 1..Len(starts) |->
                 Slice(line_segment, starts[k], starts[k] + group_size)])

\* line segments that run one symbol into the next line
format_lines_overlap(chars, length, group_size, line_length) ==
    LET starts == Range(0, length, line_length)
    IN  [k \in 1..Len(starts) |->
            grouped_line(Slice(chars, starts[k], starts[k] + line_length + 1),
                         group_size)]

\* lines 51-63: the lines built from the drawn string all_chars
format_lines(chars, length, group_size, line_length) ==
    LET starts == Range(0, length, line_length)
    IN  [k \in 1..Len(starts) |->
            grouped_line(Slice(chars, starts[k], starts[k] + line_length),
                         group_size)]

\* every string line 49 can build: `length` draws from ascii_uppercase
RECURSIVE Pads(_)
Pads(length) ==
    IF length <= 0 THEN {<<>>}
    ELSE {p \o <<c>> : p \in Pads(length - 1), c \in choice(ascii_uppercase)}

NoCall == <<>>
Args(length, group_size, line_length) ==
    [length |-> length, group_size |-> group_size, line_length |-> line_length]

(***************************************************************************)
(* SpecPad: a direct call generate_one_time_pad(length, group_size,        *)
(* line_length) with valid arguments                                       *)
(***************************************************************************)
\* line 49, one iteration of the generator expression: one more symbol
draw ==
    /\ pc = "draw"
    /\ Len(all_chars) < call[1].length
    /\ \E c \in choice(ascii_uppercase) : all_chars' = Append(all_chars, c)
    /\ UNCHANGED <<call, pad_lines, pc>>
    /\ UNCHANGED gui_vars

\* lines 51-63: all symbols drawn; build the lines and return them
format ==
    /\ pc = "draw"
    /\ Len(all_chars) = call[1].length
    /\ pad_lines' = format_lines(all_chars, call[1].length,
                                 call[1].group_size, call[1].line_length)
    /\ pc' = "done"
    /\ UNCHANGED <<call, all_chars>>
    /\ UNCHANGED gui_vars

(***************************************************************************)
(* OTPGeneratorApp (lines 65-170)                                          *)
(***************************************************************************)
NoDialog == <<>>
Dialog(kind, title, message) ==
    <<[kind |-> kind, title |-> title, message |-> message]>>
ErrNotInteger ==
    Dialog("showerror", "Invalid Input",
           "Please enter valid integers for Length, Group Size, and Line Length.")
ErrNotPositive ==
    Dialog("showerror", "Invalid Input", "Values must be positive integers.")
InfoNoData ==
    Dialog("showinfo", "No Data", "No one-time pad generated to save.")
InfoSaved ==
    Dialog("showinfo", "Success", "Pad successfully saved to: filename")
ErrSaving == Dialog("showerror", "Error Saving File", "str(e)")

NoFile == <<>>
NotAsked == <<>>
NoException == <<>>

\* what the user types into an entry field
Missing == {<<>>}
NonInteger == {<<"x">>, <<"1", ".", "5">>}
Negative == {<<"-", "1">>}
Zero == {<<"0">>}
Positive == {<<Digit[d + 1]>> : d \in 1..MaxTyped} \cup {<<" ", "1", " ">>}
EntryTexts == Missing \cup NonInteger \cup Negative \cup Zero \cup Positive

\* the file names the chooser can return; "" when the user cancels
Filenames == {"", "pad.txt"}

\* a clear that leaves the old content in place
delete_nothing(buffer) == buffer

\* line 124: output_text.delete("1.0", tk.END)
delete(buffer) == <<>>

\* lines 144-145: insert each line followed by a newline at the end
RECURSIVE insert_lines(_, _)
insert_lines(buffer, lines) ==
    IF lines = <<>> THEN buffer
    ELSE insert_lines(buffer \o lines[1] \o <<"\n">>, Tail(lines))

\* line 152: output_text.get("1.0", tk.END); Tk's text widget always ends
\* with a newline of its own, which the range up to END includes
get(buffer) == buffer \o <<"\n">>

\* a sanity check that lets a zero length through
positive_but_length(length, group_size, line_length) ==
    ~(length < 0 \/ group_size <= 0 \/ line_length <= 0)

\* line 136, negated: the sanity check passes
positive(length, group_size, line_length) ==
    ~(length <= 0 \/ group_size <= 0 \/ line_length <= 0)

\* lines 119-145, entered with the entry fields holding the three given
\* texts: what the user has typed before pressing Generate
on_generate(length_text, group_size_text, line_length_text) ==
    \E length \in {int(length_text)},
       group_size \in {int(group_size_text)},
       line_length \in {int(line_length_text)} :
    LET cleared == delete(output_text)
        reject(dialog) ==
            /\ messagebox' = dialog
            /\ output_text' = cleared
            /\ call' = NoCall
            /\ all_chars' = <<>>
            /\ pad_lines' = <<>>
    IN  /\ pc = "idle"
        /\ length_var' = length_text
        /\ group_size_var' = group_size_text
        /\ line_length_var' = line_length_text
        /\ IF length = <<>> \/ group_size = <<>> \/ line_length = <<>>
           THEN reject(ErrNotInteger)
           ELSE IF ~positive(length[1], group_size[1], line_length[1])
           THEN reject(ErrNotPositive)
           ELSE /\ length[1] <= MaxTyped
                /\ \E chars \in Pads(length[1]) :
                    \E lines \in {format_lines(chars, length[1],
                                       group_size[1], line_length[1])} :
                      /\ all_chars' = chars
                      /\ pad_lines' = lines
                      /\ output_text' = insert_lines(cleared, lines)
                /\ call' = <<Args(length[1], group_size[1], line_length[1])>>
                /\ messagebox' = NoDialog
        /\ handler' = "on_generate"
        /\ filename' = NotAsked
        /\ raised' = NoException
        /\ file' = NoFile
        /\ pad_text' = <<>>
        /\ UNCHANGED pc

\* a save whose exception is not caught: no dialog is shown for it
write_file_uncaught(text) ==
    {[file |-> <<text>>, raised |-> NoException, messagebox |-> InfoSaved],
     [file |-> NoFile, raised |-> <<"OSError">>, messagebox |-> NoDialog],
     [file |-> <<<<>>>>, raised |-> <<"OSError">>, messagebox |-> NoDialog]}

\* lines 165-170: the outcomes of writing `text` to the chosen file.
\* The write succeeds; or open() raises and no file is made; or the file
\* is made and the write raises before any of the text is in it.
write_file(text) ==
    {[file |-> <<text>>, raised |-> NoException, messagebox |-> InfoSaved],
     [file |-> NoFile, raised |-> <<"OSError">>, messagebox |-> ErrSaving],
     [file |-> <<<<>>>>, raised |-> <<"OSError">>, messagebox |-> ErrSaving]}

\* lines 147-170
on_save ==
    LET text == strip(get(output_text))
    IN  /\ pc = "idle"
        /\ handler' = "on_save"
        /\ pad_text' = text
        /\ IF text = <<>>
           THEN /\ messagebox' = InfoNoData
                /\ filename' = NotAsked
                /\ raised' = NoException
                /\ file' = NoFile
           ELSE \E name \in Filenames :
                   /\ filename' = <<name>>
                   /\ IF name # ""
                      THEN \E outcome \in write_file(text) :
                              /\ file' = outcome.file
                              /\ raised' = outcome.raised
                              /\ messagebox' = outcome.messagebox
                      ELSE /\ file' = NoFile
                           /\ raised' = NoException
                           /\ messagebox' = NoDialog
        /\ UNCHANGED <<length_var, group_size_var, line_length_var,
                       output_text, call, all_chars, pad_lines, pc>>

(***************************************************************************)
(* Specifications                                                          *)
(***************************************************************************)
\* lines 83, 88, 93, 104: the window as __init__ leaves it
InitWidgets ==
    /\ length_var = <<"1", "0", "0", "0">>
    /\ group_size_var = <<"5">>
    /\ line_length_var = <<"5", "0">>
    /\ output_text = <<>>
    /\ handler = "none"
    /\ messagebox = NoDialog
    /\ filename = NotAsked
    /\ raised = NoException
    /\ file = NoFile
    /\ pad_text = <<>>

Init ==
    /\ InitWidgets
    /\ call = NoCall
    /\ all_chars = <<>>
    /\ pad_lines = <<>>
    /\ pc = "idle"

\* The buttons of lines 97 and 112.  Before a press of Generate the user
\* retypes one entry field; further presses reach every combination of
\* field texts.
Next ==
    \/ \E text \in EntryTexts :
          on_generate(text, group_size_var, line_length_var)
    \/ \E text \in EntryTexts :
          on_generate(length_var, text, line_length_var)
    \/ \E text \in EntryTexts :
          on_generate(length_var, group_size_var, text)
    \/ on_save

Spec == Init /\ [][Next]_vars

InitPad ==
    /\ InitWidgets
    /\ \E length \in 1..MaxLength, group_size \in 1..MaxGroup,
          line_length \in 1..MaxLine :
          call = <<Args(length, group_size, line_length)>>
    /\ all_chars = <<>>
    /\ pad_lines = <<>>
    /\ pc = "draw"

NextPad == draw \/ format

SpecPad == InitPad /\ [][NextPad]_vars

(***************************************************************************)
(* Properties of generate_one_time_pad, checked under SpecPad              *)
(***************************************************************************)
Alphabet == {ascii_uppercase[n] : n \in 1..26}
IsSymbol(c) == c # " "
\* the non-separator characters of a line
Symbols(line) == SelectSeq(line, IsSymbol)
Spaces(line) == Len(line) - Len(Symbols(line))

RECURSIVE Concat(_)
Concat(seqs) == IF seqs = <<>> THEN <<>> ELSE seqs[1] \o Concat(Tail(seqs))

\* a line cut at every space: the pieces between the spaces, empty pieces
\* included (a leading, trailing or doubled space gives an empty piece)
RECURSIVE SplitAt(_, _)
SplitAt(sep, line) ==
    IF \A n \in 1..Len(line) : line[n] # sep THEN <<line>>
    ELSE LET n == CHOOSE m \in 1..Len(line) :
                     line[m] = sep /\ \A q \in 1..(m - 1) : line[q] # sep
         IN  <<SubSeq(line, 1, n - 1)>>
                \o SplitAt(sep, SubSeq(line, n + 1, Len(line)))

Ceil(a, b) == (a + b - 1) \div b

Returned == pc = "done"
length == call[1].length
group_size == call[1].group_size
line_length == call[1].line_length

\* C1: the returned lines, concatenated in order with the spaces removed,
\* are exactly the drawn pad: `length` symbols, each a letter of A-Z, in the
\* order drawn.
C1_RoundTrip ==
    Returned =>
        /\ Symbols(Concat(pad_lines)) = all_chars
        /\ Len(Symbols(Concat(pad_lines))) = length
        /\ \A n \in 1..Len(all_chars) : all_chars[n] \in Alphabet

\* C1 witness: a pad of both symbols that spans several lines and groups
C1_Witness ==
    /\ Returned
    /\ length = 5 /\ group_size = 2 /\ line_length = 3
    /\ all_chars = <<"A", "B", "B", "A", "B">>

\* C2: the number of returned lines is ceil(length / line_length), which is
\* at least 1 and the same for every group_size.
C2_LineCount ==
    Returned =>
        /\ Len(pad_lines) = Ceil(length, line_length)
        /\ Len(pad_lines) >= 1

\* C2 witness: a call whose length is not a multiple of line_length
C2_Witness ==
    /\ Returned
    /\ length = 5 /\ line_length = 2 /\ group_size = 3
    /\ Len(pad_lines) = 3

\* C3: every line but the last holds line_length symbols; the last holds
\* length mod line_length symbols, or line_length when that is zero; no
\* line is empty.
C3_LineSizes ==
    Returned =>
        /\ \A k \in 1..(Len(pad_lines) - 1) :
              Len(Symbols(pad_lines[k])) = line_length
        /\ Len(pad_lines) >= 1
        /\ Len(Symbols(pad_lines[Len(pad_lines)])) =
              IF length % line_length # 0 THEN length % line_length
              ELSE line_length
        /\ \A k \in 1..Len(pad_lines) : pad_lines[k] # <<>>

\* C3 witness: full lines followed by a shorter last line
C3_Witness ==
    /\ Returned
    /\ length = 6 /\ line_length = 4
    /\ Len(pad_lines) = 2
    /\ Len(Symbols(pad_lines[2])) = 2

\* the grouping of generate(12, 5, 10): ABCDE FGHIJ / KL
Scenario12 ==
    format_lines(SubSeq(ascii_uppercase, 1, 12), 12, 5, 10) =
        << <<"A", "B", "C", "D", "E", " ", "F", "G", "H", "I", "J">>,
           <<"K", "L">> >>

\* C4: each line is groups joined by one space: every group but the last
\* of the line has group_size symbols, the last has 1..group_size, and
\* there is no leading, trailing or doubled space, so a line of n symbols
\* has ceil(n / group_size) - 1 spaces.
C4_Grouping ==
    /\ Scenario12
    /\ Returned =>
          \A k \in 1..Len(pad_lines) :
              LET groups == SplitAt(" ", pad_lines[k])
                  n == Len(Symbols(pad_lines[k]))
              IN  /\ \A g \in 1..(Len(groups) - 1) :
                        Len(groups[g]) = group_size
                  /\ Len(groups[Len(groups)]) \in 1..group_size
                  /\ Len(groups) = Ceil(n, group_size)
                  /\ Spaces(pad_lines[k]) = Ceil(n, group_size) - 1

\* C4 witness: the shape of generate(12, 5, 10) at a smaller size: a first
\* line of two full groups and a second line of one short group
C4_Witness ==
    /\ Returned
    /\ length = 5 /\ group_size = 2 /\ line_length = 4
    /\ Spaces(pad_lines[1]) = 1
    /\ Len(pad_lines[2]) = 1

\* C5: with group_size >= line_length no line holds a separator, and a call
\* with length = 1 returns one line of one symbol.
C5_NoSeparator ==
    Returned =>
        /\ group_size >= line_length =>
              \A k \in 1..Len(pad_lines) :
                  /\ Spaces(pad_lines[k]) = 0
                  /\ \A n \in 1..Len(pad_lines[k]) :
                        pad_lines[k][n] \in Alphabet
        /\ length = 1 => Len(pad_lines) = 1 /\ Len(pad_lines[1]) = 1

\* C5 witness: group_size equal to line_length, over several lines
C5_Witness ==
    /\ Returned
    /\ group_size = 3 /\ line_length = 3 /\ length = 6
    /\ Len(pad_lines) = 2

(***************************************************************************)
(* Properties of the handlers, checked under Spec                          *)
(***************************************************************************)
Fields == {length_var, group_size_var, line_length_var}
Rejected == Missing \cup NonInteger \cup Negative \cup Zero
Generated == handler = "on_generate" /\ call # NoCall
SaveCancelled == handler = "on_save" /\ filename = <<"">>
SaveFailed == handler = "on_save" /\ raised # NoException
SaveSucceeded ==
    /\ handler = "on_save"
    /\ filename # NotAsked /\ filename # <<"">>
    /\ raised = NoException

\* C6: an on_generate that reads a missing, non-integer, zero or negative
\* field shows an error and does not call generate_one_time_pad; every call
\* of generate_one_time_pad has three arguments that are all >= 1.
C6_Validation ==
    /\ Fields \cap Rejected # {} =>
          /\ call = NoCall
          /\ handler = "on_generate" =>
                /\ messagebox \in {ErrNotInteger, ErrNotPositive}
                /\ output_text = <<>>
    /\ call # NoCall =>
          /\ call[1].length >= 1
          /\ call[1].group_size >= 1
          /\ call[1].line_length >= 1

\* C6 witness: Generate pressed with a zero length and valid other fields
C6_Witness ==
    /\ handler = "on_generate"
    /\ length_var \in Zero
    /\ group_size_var \in Positive
    /\ line_length_var \in Positive
    /\ messagebox = ErrNotPositive
    /\ call = NoCall

IsWhitespace(text) == \A n \in 1..Len(text) : text[n] \in Whitespace

\* C7: an on_save that finds only whitespace in the buffer shows the
\* "No Data" message and nothing else: the file chooser is not opened and
\* no file is created or written.
C7_NothingToSave ==
    handler = "on_save" /\ IsWhitespace(get(output_text)) =>
        /\ messagebox = InfoNoData
        /\ filename = NotAsked
        /\ file = NoFile
        /\ raised = NoException

\* C7 witness: Save pressed on an empty buffer
C7_Witness ==
    /\ handler = "on_save"
    /\ output_text = <<>>
    /\ messagebox = InfoNoData

\* C8 as stated: a failed or cancelled save leaves the buffer unchanged, is
\* reported to the user in a dialog, and the next on_save tries to write the
\* same text.
C8_Original ==
    [][/\ (SaveFailed \/ SaveCancelled)' =>
             /\ output_text' = output_text
             /\ messagebox' # NoDialog
       /\ (SaveFailed \/ SaveCancelled) /\ handler' = "on_save" =>
             /\ pad_text' = pad_text
             /\ filename' # NotAsked]_vars

\* C8 amended: a failed or cancelled save leaves the buffer unchanged; a
\* failed save is reported in an error dialog and the exception goes no
\* further, a cancelled save returns without any dialog; and the next
\* on_save, with no on_generate between, asks for a file again to write the
\* same text.
C8_SaveRetry ==
    [][/\ (SaveFailed \/ SaveCancelled)' => output_text' = output_text
       /\ SaveFailed' => messagebox' = ErrSaving
       /\ SaveCancelled' => messagebox' = NoDialog /\ file' = NoFile
       /\ (SaveFailed \/ SaveCancelled) /\ handler' = "on_save" =>
             /\ pad_text' = pad_text
             /\ pad_text' # <<>>
             /\ filename' # NotAsked]_vars

\* C8 witness: a save of a generated pad that raised
C8_Witness ==
    /\ SaveFailed
    /\ output_text # <<>>
    /\ pad_text = strip(get(output_text))
    /\ messagebox = ErrSaving

\* C9: after a successful on_generate and a successful on_save the file
\* holds the returned lines joined by single newlines: no newline or other
\* whitespace at either end, and line for line the text that is displayed.
C9_SavedText ==
    SaveSucceeded /\ call # NoCall =>
        /\ file = <<Join(<<"\n">>, pad_lines)>>
        /\ file[1] # <<>>
        /\ file[1][1] \notin Whitespace
        /\ file[1][Len(file[1])] \notin Whitespace
        /\ SplitAt("\n", file[1]) = pad_lines
        /\ SplitAt("\n", file[1]) \o <<<<>>>> = SplitAt("\n", output_text)

\* C9 witness: a generated pad of two lines, saved
C9_Witness ==
    /\ SaveSucceeded
    /\ call # NoCall
    /\ Len(pad_lines) = 2
    /\ file = <<pad_text>>
    /\ messagebox = InfoSaved

\* the buffer that shows `lines`: each line followed by a newline
Displayed(lines) ==
    Concat([k \in 1..Len(lines) |-> lines[k] \o <<"\n">>])

\* C10: the buffer is empty or holds exactly the lines of the most recent
\* on_generate, each followed by a newline; a rejected on_generate leaves
\* it empty, and an on_save after it reports that there is nothing to save.
C10_Buffer ==
    /\ output_text = <<>> \/ (call # NoCall /\ pad_lines # <<>>)
    /\ output_text = Displayed(pad_lines)
    /\ call = NoCall =>
          /\ output_text = <<>>
          /\ handler = "on_save" => messagebox = InfoNoData /\ file = NoFile

\* C10 witness: a pad displayed by a press of Generate that was not the
\* first: each press retypes one field, and here all three are retyped
C10_Witness ==
    /\ Generated
    /\ Fields \subseteq Positive
    /\ Len(pad_lines) = 2
    /\ output_text # <<>>

====
